---- MODULE Spec2Model ----
(***************************************************************************)
(* Model of generate.js: the command line is parsed and validated, then    *)
(* the main async function creates `total` products either one by one      *)
(* (sequential path) or in rounds of `batchSize` aliased mutations         *)
(* (batched path) with a concurrent image fan-out per round.               *)
(*                                                                         *)
(* Strings that the code parses are sequences of one-character strings.    *)
(* A JS number is a record [nan, val]; val is meaningful when nan = FALSE. *)
(***************************************************************************)
EXTENDS Integers, Sequences, FiniteSets, TLC

\* ------------------------------------------------------------- bounds
\* largest product count given on the command line
MaxCount == 3
\* largest --batch-size value enumerated besides the boundary values
MaxWidth == 3
\* runs are followed up to this product index
MaxIndex == MaxCount
\* one longer sequential run is followed to its end
SeqMaxIndex == MaxCount + 2

\* ------------------------------------------------------ program constants
DEFAULT_TOTAL == 100
DEFAULT_BATCH_SIZE == 10
MAX_BATCH_SIZE == 100
DELAY_MS == 600

Null == "null"

\* ------------------------------------------------------------- strings
Digits == <<"0", "1", "2", "3", "4", "5", "6", "7", "8", "9">>

IsDigit(c) == \E d \in 1..10 : Digits[d] = c

DigitVal(c) == (CHOOSE d \in 1..10 : Digits[d] = c) - 1

\* decimal rendering of n >= 0, as typed on a command line
RECURSIVE DecStr(_)
DecStr(n) == IF n < 10 THEN <<Digits[n + 1]>>
             ELSE DecStr(n \div 10) \o <<Digits[(n % 10) + 1]>>

DASHDASH == <<"-", "-">>
BATCH == <<"-", "-", "b", "a", "t", "c", "h">>
BATCH_SIZE_EQ == <<"-", "-", "b", "a", "t", "c", "h", "-", "s", "i", "z", "e", "=">>
NO_TEST_TAG == <<"-", "-", "n", "o", "-", "t", "e", "s", "t", "-", "t", "a", "g">>
HELP == <<"-", "-", "h", "e", "l", "p">>
HELP_SHORT == <<"-", "h">>

\* String.prototype.startsWith
StartsWith(s, p) == Len(s) >= Len(p) /\ SubSeq(s, 1, Len(p)) = p

\* Array.prototype.includes
Includes(arr, x) == \E k \in 1..Len(arr) : arr[k] = x

NaN == [nan |-> TRUE, val |-> 0]
Num(v) == [nan |-> FALSE, val |-> v]

\* length of the longest prefix of s made of digits
RECURSIVE DigitPrefixLen(_)
DigitPrefixLen(s) == IF s = <<>> \/ ~IsDigit(Head(s)) THEN 0
                     ELSE 1 + DigitPrefixLen(Tail(s))

RECURSIVE DigitsValue(_)
DigitsValue(s) == IF s = <<>> THEN 0
                  ELSE 10 * DigitsValue(SubSeq(s, 1, Len(s) - 1)) + DigitVal(s[Len(s)])

\* parseInt(string) without a radix, on strings over digits, sign, "." and
\* letters: optional sign, then the longest run of digits; NaN if there is none
parseInt(s) ==
    LET neg == s # <<>> /\ Head(s) = "-"
        signed == s # <<>> /\ Head(s) \in {"-", "+"}
        body == IF signed THEN Tail(s) ELSE s
        n == DigitPrefixLen(body)
        v == DigitsValue(SubSeq(body, 1, n))
    IN IF n = 0 THEN NaN ELSE Num(IF neg THEN 0 - v ELSE v)

\* s.split("=")[1]: the text between the first "=" and the next one (or the end);
\* callers pass a string that starts with "--batch-size=", so an "=" exists
RECURSIVE UpToEq(_)
UpToEq(s) == IF s = <<>> \/ Head(s) = "=" THEN <<>>
             ELSE <<Head(s)>> \o UpToEq(Tail(s))

RECURSIVE AfterFirstEq(_)
AfterFirstEq(s) == IF s = <<>> THEN <<>>
                   ELSE IF Head(s) = "=" THEN Tail(s)
                   ELSE AfterFirstEq(Tail(s))

SplitEq1(s) == UpToEq(AfterFirstEq(s))

\* Number.isInteger: parseInt yields an integer or NaN
IsInteger(n) == ~n.nan

\* x || d on numbers: NaN and 0 are falsy
OrDefault(n, d) == IF n.nan \/ n.val = 0 THEN Num(d) ELSE n

\* ------------------------------------------------- command-line parsing
ParseIncludeTestTag(args) == ~Includes(args, NO_TEST_TAG)

ParseUseBatching(args) == Includes(args, BATCH)

ParseBatchSize(args) ==
    LET found == SelectSeq(args, LAMBDA a : StartsWith(a, BATCH_SIZE_EQ))
    IN IF found = <<>> THEN Num(DEFAULT_BATCH_SIZE)
       ELSE parseInt(SplitEq1(Head(found)))

\* parseInt(undefined) is NaN
ParseTotal(args) ==
    LET found == SelectSeq(args, LAMBDA a : ~StartsWith(a, DASHDASH))
    IN OrDefault(IF found = <<>> THEN NaN ELSE parseInt(Head(found)), DEFAULT_TOTAL)

WantsHelp(args) == Includes(args, HELP) \/ Includes(args, HELP_SHORT)

TotalInvalid(t) == t.val <= 0 \/ ~IsInteger(t)

BatchSizeInvalid(useB, b) ==
    useB /\ (~IsInteger(b) \/ b.val < 1 \/ b.val > MAX_BATCH_SIZE)

\* ------------------------------------------------- command lines explored
ValidCountArgs == {DecStr(n) : n \in 1..MaxCount}

OddCountArgs == {<<"0">>, <<"-", "1">>, <<"1", ".", "5">>, <<"a">>}

SizeArg(txt) == BATCH_SIZE_EQ \o txt

RunFlagSets ==
    {<<>>, <<BATCH>>, <<NO_TEST_TAG>>}
    \cup {<<BATCH, SizeArg(DecStr(w))>> : w \in 1..MaxWidth}
    \cup {<<BATCH, SizeArg(DecStr(MAX_BATCH_SIZE))>>}

OddFlagSets ==
    {<<BATCH, SizeArg(<<"0">>)>>, <<BATCH, SizeArg(DecStr(MAX_BATCH_SIZE + 1))>>,
     <<BATCH, SizeArg(<<"a">>)>>, <<BATCH, SizeArg(<<>>)>>,
     <<BATCH, SizeArg(<<"2", ".", "5">>)>>, <<SizeArg(<<"0">>)>>,
     <<HELP>>, <<HELP_SHORT>>}

ArgvSet ==
    {<<c>> \o f : c \in ValidCountArgs, f \in RunFlagSets \cup OddFlagSets}
    \cup {<<c>> \o f : c \in OddCountArgs, f \in {<<>>, <<BATCH, SizeArg(<<"2">>)>>}}
    \cup {<<>>, <<BATCH, SizeArg(<<"1">>)>>, <<BATCH>>, <<HELP>>,
          <<<<"0">>, BATCH, SizeArg(<<"0">>)>>, <<DecStr(SeqMaxIndex)>>}


\* ------------------------------------------------------------- state
VARIABLES
    argv,                       \* process.argv.slice(2)
    pc,                         \* position of the top-level code / main async function
    exitCode,                   \* status passed to process.exit, -1 while running
    includeTestTag, useBatching, batchSize, total,
    onlineStorePublicationId,   \* module-level cache
    publicationId,              \* local of the batched branch
    successCount, failureCount,
    i,                          \* loop index of either branch
    batchInputs,                \* drafts of the current round
    imageJobs,                  \* product indices of the current round's image jobs
    imageResults,               \* per job: the promise, pending or settled
    inflight,                   \* network requests issued and not yet answered
    trace,                      \* requests and delays, in the order they were started
    log,                        \* console lines the tally and error reports consist of
    served,                     \* the create responses delivered so far
    imgServed                   \* the image responses of the current round / product

vars == <<argv, pc, exitCode, includeTestTag, useBatching, batchSize, total,
          onlineStorePublicationId, publicationId, successCount, failureCount, i,
          batchInputs, imageJobs, imageResults, inflight, trace, log, served,
          imgServed>>

cliVars == <<argv, exitCode, includeTestTag, useBatching, batchSize, total>>
roundVars == <<batchInputs, imageJobs, imageResults>>

\* ------------------------------------------------------------- events
LookupEv == [op |-> "lookup", index |-> 0, n |-> 0]
CreateEv(idx, size) == [op |-> "create", index |-> idx, n |-> size]
ImageEv(idx) == [op |-> "image", index |-> idx, n |-> 1]
DelayEv(ms) == [op |-> "delay", index |-> 0, n |-> ms]

Min(a, b) == IF a < b THEN a ELSE b

Last(s) == s[Len(s)]

\* ------------------------------------------------------ server responses
PUBLICATION_GID == "gid://shopify/Publication/1"

LookupOutcomes == {"found", "notFound", "throw"}

\* extensions.cost of a response: absent, or the server's budget figures
NoExtensions == [hasCost |-> FALSE]
SampleExtensions ==
    [hasCost |-> TRUE, requestedQueryCost |-> 110, actualQueryCost |-> 100, maximumAvailable |-> 1000,
     currentlyAvailable |-> 40, restoreRate |-> 50]
ExtensionsSet == {NoExtensions, SampleExtensions}

\* top-level errors of a response: the extensions.code of each entry
ErrorLists == {<<"THROTTLED">>, <<"INTERNAL_SERVER_ERROR">>}

SlotOutcomes == {"ok", "userErrors", "missing"}

IMAGE_COST == 21
ImageOutcomes ==
    {[kind |-> k, cost |-> c] : k \in {"ok", "errors", "mediaUserErrors"},
                                c \in {0, IMAGE_COST}}
    \cup {[kind |-> "throw", cost |-> 0]}

\* ------------------------------------------------------------- Init
Init ==
    /\ argv \in ArgvSet
    /\ pc = "start"
    /\ exitCode = -1
    /\ includeTestTag = TRUE
    /\ useBatching = FALSE
    /\ batchSize = Num(DEFAULT_BATCH_SIZE)
    /\ total = Num(DEFAULT_TOTAL)
    /\ onlineStorePublicationId = Null
    /\ publicationId = Null
    /\ successCount = 0
    /\ failureCount = 0
    /\ i = 0
    /\ batchInputs = <<>>
    /\ imageJobs = <<>>
    /\ imageResults = <<>>
    /\ inflight = {}
    /\ trace = <<>>
    /\ log = <<>>
    /\ served = <<>>
    /\ imgServed = <<>>

\* ---------------------------------------------- lines 344-405: top level
Startup ==
    /\ pc = "start"
    /\ includeTestTag' = ParseIncludeTestTag(argv)
    /\ useBatching' = ParseUseBatching(argv)
    /\ batchSize' = ParseBatchSize(argv)
    /\ total' = ParseTotal(argv)
    /\ IF WantsHelp(argv)
         THEN pc' = "exited" /\ exitCode' = 0
         ELSE IF TotalInvalid(total') \/ BatchSizeInvalid(useBatching', batchSize')
           THEN pc' = "exited" /\ exitCode' = 1
           ELSE pc' = "main" /\ exitCode' = -1
    /\ UNCHANGED <<argv, onlineStorePublicationId, publicationId, successCount,
                   failureCount, i, roundVars, inflight, trace, log, served, imgServed>>

\* ------------------------------- lines 85-115: getOnlineStorePublicationId
\* the early return of line 86
LookupCached == onlineStorePublicationId # Null

\* the cache after a lookup response (lines 100-114)
LookupStore(outcome) ==
    IF outcome = "found" THEN PUBLICATION_GID ELSE onlineStorePublicationId

\* the value the call returns (line 110 or 113)
LookupReturn(outcome) ==
    IF outcome = "throw" THEN Null ELSE LookupStore(outcome)

\* ------------------------------------------ lines 117-150: generateProductData
generateProductData(index, inclTag, pubId) ==
    [index |-> index, markerTag |-> inclTag, publicationId |-> pubId]

\* lines 124-127: faker.helpers.arrayElements(array, count) returns count
\* elements taken from distinct positions of the array, in any order
TAG_VOCABULARY == <<"New", "Featured", "Limited", "Sale">>

MARKER_TAG == "test_product"

ArrayElements2(arr) ==
    {<<arr[a], arr[b]>> : a \in 1..Len(arr), b \in 1..Len(arr)} \
    {<<arr[a], arr[a]>> : a \in 1..Len(arr)}

\* a tag list that carries the marker whatever the flag says
ProductTagsAlwaysMarked(randomTags, inclTag) == Append(randomTags, MARKER_TAG)

\* line 128
ProductTags(randomTags, inclTag) ==
    IF inclTag THEN Append(randomTags, MARKER_TAG) ELSE randomTags

\* lines 117-150 with the draw of line 124 made explicit: the draft and its tags
generateProductDataTagged(index, inclTag, pubId, randomTags) ==
    [index |-> index, markerTag |-> inclTag, publicationId |-> pubId,
     tags |-> ProductTags(randomTags, inclTag), status |-> "ACTIVE"]

\* one call of generateProductData on the inputs held in i, includeTestTag and
\* publicationId
BuildDraft ==
    /\ pc = "draft"
    /\ \E randomTags \in ArrayElements2(TAG_VOCABULARY) :
         batchInputs' = <<generateProductDataTagged(i, includeTestTag, publicationId,
                                                    randomTags)>>
    /\ UNCHANGED <<cliVars, pc, onlineStorePublicationId, publicationId, successCount,
                   failureCount, i, imageJobs, imageResults, inflight, trace, log,
                   served, imgServed>>


\* ------------------------------------------ lines 201-273: createProductBatch
\* costInfo (lines 228-234): absent figures default to 0
CostInfo(ext) ==
    IF ext.hasCost
      THEN [requestedCost |-> ext.requestedQueryCost,
            maxAvailable |-> ext.maximumAvailable,
            currentlyAvailable |-> ext.currentlyAvailable]
      ELSE [requestedCost |-> 0, maxAvailable |-> 0, currentlyAvailable |-> 0]

\* a check that never recognises the throttle code
IsThrottledNever(errors) == FALSE

\* errors.some(e => e.extensions?.code === 'THROTTLED')
IsThrottled(errors) == \E k \in 1..Len(errors) : errors[k] = "THROTTLED"

\* lines 236-242: the value returned when the response carries top-level errors
BatchErrorResults(inputs, startIndex) == <<>>

\* a reconciliation in which one bad slot fails the whole round
BatchDataResultsAllOrNothing(inputs, startIndex, slots) ==
    [k \in 1..Len(inputs) |->
        [success |-> \A j \in 1..Len(inputs) : slots[j] = "ok",
         index |-> startIndex + (k - 1)]]

\* lines 246-265: one result per slot of the response's data
BatchDataResults(inputs, startIndex, slots) ==
    [k \in 1..Len(inputs) |->
        [success |-> slots[k] = "ok", index |-> startIndex + (k - 1)]]

\* a catch block that reports nothing for the round
BatchThrowResultsEmpty(inputs, startIndex) == <<>>

\* lines 266-272: the request threw
BatchThrowResults(inputs, startIndex) ==
    [k \in 1..Len(inputs) |-> [success |-> FALSE, index |-> startIndex + (k - 1)]]

\* what is remembered of a delivered create response
Served(startIndex, size, resp) ==
    [start |-> startIndex, n |-> size, kind |-> resp.kind,
     slots |-> IF resp.kind = "data" THEN resp.slots ELSE <<>>,
     errors |-> IF resp.kind = "errors" THEN resp.errors ELSE <<>>,
     ext |-> IF resp.kind = "errors" THEN resp.ext ELSE NoExtensions]

\* a response of the batched create document
BatchResponses(size) ==
    {[kind |-> "throw"]}
    \cup {[kind |-> "errors", errors |-> e, ext |-> x] :
              e \in ErrorLists, x \in ExtensionsSet}
    \cup {[kind |-> "data", slots |-> sl] : sl \in [1..size -> SlotOutcomes]}

createProductBatchResults(inputs, startIndex, resp) ==
    CASE resp.kind = "throw" -> BatchThrowResults(inputs, startIndex)
      [] resp.kind = "errors" -> BatchErrorResults(inputs, startIndex)
      [] resp.kind = "data" -> BatchDataResults(inputs, startIndex, resp.slots)

\* the console lines createProductBatch writes that the reports rest on
createProductBatchLog(inputs, startIndex, resp) ==
    CASE resp.kind = "throw" -> <<[t |-> "batchFailed", index |-> startIndex]>>
      [] resp.kind = "errors" ->
           <<[t |-> "batchGraphQLErrors", index |-> startIndex]>>
           \o (IF IsThrottled(resp.errors)
                 THEN <<[t |-> "rateLimit", index |-> startIndex,
                         cost |-> CostInfo(resp.ext)]>>
                 ELSE <<>>)
      [] resp.kind = "data" ->
           LET bad == SelectSeq([k \in 1..Len(inputs) |-> k],
                                LAMBDA k : resp.slots[k] # "ok")
           IN [m \in 1..Len(bad) |->
                 [t |-> "userErrors", index |-> startIndex + (bad[m] - 1)]]

\* ------------------------------------------ lines 152-199: addImageToProduct
\* the value the call resolves to; it catches every failure, so it never rejects
addImageToProduct(out) ==
    IF out.kind = "throw" THEN [success |-> FALSE, cost |-> 0]
    ELSE [success |-> out.kind = "ok", cost |-> out.cost]

\* every value it can resolve to is an object, which is truthy at line 324
ImageReturns == [success : BOOLEAN, cost : {0, IMAGE_COST}]

Pending == [status |-> "pending"]
Fulfilled(v) == [status |-> "fulfilled", value |-> v]

\* line 457: a rejected promise counts as a failure of cost 0
ImageData(result) ==
    IF result.status = "fulfilled" THEN result.value
    ELSE [success |-> FALSE, cost |-> 0]

RECURSIVE SumCost(_)
SumCost(rs) == IF rs = <<>> THEN 0
               ELSE ImageData(Head(rs)).cost + SumCost(Tail(rs))

\* a collection that stops at the first failed image call
CountSuccessUntilFailure(rs) ==
    Cardinality({k \in 1..Len(rs) : \A j \in 1..k : ImageData(rs[j]).success})

CountSuccess(rs) == Len(SelectSeq(rs, LAMBDA r : ImageData(r).success))

\* ---------------------------------------------- lines 407-473: batched branch
\* the round width without the remainder clamp
CurrentBatchSizeUnclamped == batchSize.val

\* line 415
CurrentBatchSize == Min(batchSize.val, total.val - i + 1)

\* line 414, third clause
NextRoundIndex == i + batchSize.val

MainStart ==
    /\ pc = "main"
    /\ IF useBatching
         THEN IF LookupCached
                THEN /\ pc' = "b_top"
                     /\ publicationId' = onlineStorePublicationId
                     /\ i' = 1
                     /\ UNCHANGED <<inflight, trace>>
                ELSE /\ pc' = "b_lookup"
                     /\ inflight' = inflight \cup {LookupEv}
                     /\ trace' = Append(trace, LookupEv)
                     /\ UNCHANGED <<publicationId, i>>
         ELSE /\ pc' = "s_top"
              /\ i' = 1
              /\ UNCHANGED <<publicationId, inflight, trace>>
    /\ UNCHANGED <<cliVars, onlineStorePublicationId, successCount, failureCount,
                   roundVars, log, served, imgServed>>

BatchLookupResponse ==
    /\ pc = "b_lookup"
    /\ \E outcome \in LookupOutcomes :
         /\ onlineStorePublicationId' = LookupStore(outcome)
         /\ publicationId' = LookupReturn(outcome)
    /\ inflight' = inflight \ {LookupEv}
    /\ i' = 1
    /\ pc' = "b_top"
    /\ UNCHANGED <<cliVars, successCount, failureCount, roundVars, trace, log,
                   served, imgServed>>

\* lines 414-424: loop test, drafts of the round, the create request
BatchTop ==
    /\ pc = "b_top"
    /\ IF i <= total.val
         THEN /\ i + CurrentBatchSize - 1 <= MaxIndex
              /\ batchInputs' = [j \in 1..CurrentBatchSize |->
                     generateProductData(i + (j - 1), includeTestTag, publicationId)]
              /\ inflight' = inflight \cup {CreateEv(i, CurrentBatchSize)}
              /\ trace' = Append(trace, CreateEv(i, CurrentBatchSize))
              /\ pc' = "b_create"
         ELSE /\ pc' = "done"
              /\ UNCHANGED <<batchInputs, inflight, trace>>
    /\ UNCHANGED <<cliVars, onlineStorePublicationId, publicationId, successCount,
                   failureCount, i, imageJobs, imageResults, log, served, imgServed>>

\* lines 225-272 and 427-449: the response is turned into results, the results
\* are tallied, and the image calls of the round are started
BatchCreateResponse ==
    /\ pc = "b_create"
    /\ \E resp \in BatchResponses(Len(batchInputs)) :
         LET results == createProductBatchResults(batchInputs, i, resp)
             good == SelectSeq(results, LAMBDA r : r.success)
             jobs == [k \in 1..Len(good) |-> good[k].index]
             reqs == [k \in 1..Len(jobs) |-> ImageEv(jobs[k])]
         IN /\ successCount' = successCount + Len(good)
            /\ failureCount' = failureCount + (Len(results) - Len(good))
            /\ log' = log \o createProductBatchLog(batchInputs, i, resp)
            /\ served' = Append(served, Served(i, Len(batchInputs), resp))
            /\ imageJobs' = jobs
            /\ imgServed' = [k \in 1..Len(jobs) |-> Pending]
            /\ inflight' = (inflight \ {CreateEv(i, Len(batchInputs))})
                             \cup {reqs[k] : k \in 1..Len(reqs)}
            /\ trace' = trace \o reqs
            /\ IF jobs # <<>>
                 THEN /\ imageResults' = [k \in 1..Len(jobs) |-> Pending]
                      /\ pc' = "b_images"
                      /\ i' = i
                 ELSE /\ imageResults' = <<>>
                      /\ pc' = "b_top"
                      /\ i' = NextRoundIndex
    /\ UNCHANGED <<cliVars, onlineStorePublicationId, publicationId, batchInputs>>

\* one image call of the round's fan-out is answered (lines 177-198)
ImageSettle(k) ==
    /\ pc = "b_images"
    /\ k \in 1..Len(imageJobs)
    /\ imageResults[k] = Pending
    /\ \E out \in ImageOutcomes :
         /\ imageResults' = [imageResults EXCEPT ![k] = Fulfilled(addImageToProduct(out))]
         /\ imgServed' = [imgServed EXCEPT ![k] = out]
    /\ inflight' = inflight \ {ImageEv(imageJobs[k])}
    /\ UNCHANGED <<cliVars, pc, onlineStorePublicationId, publicationId, successCount,
                   failureCount, i, batchInputs, imageJobs, trace, log, served>>

\* a join that resolves with the first settled promise
AnySettled(rs) == \E k \in 1..Len(rs) : rs[k] # Pending

\* line 447: Promise.allSettled resolves once every promise has settled
AllSettled(rs) == \A k \in 1..Len(rs) : rs[k] # Pending

\* lines 447-473: the costs are summed and reported, the loop index advances
ImagesCollected ==
    /\ pc = "b_images"
    /\ AllSettled(imageResults)
    /\ log' = Append(log, [t |-> "imageBatchCost", index |-> i,
                           cost |-> SumCost(imageResults),
                           ok |-> CountSuccess(imageResults),
                           n |-> Len(imageJobs)])
    /\ i' = NextRoundIndex
    /\ pc' = "b_top"
    /\ imageJobs' = <<>>
    /\ imageResults' = <<>>
    /\ imgServed' = <<>>
    /\ UNCHANGED <<cliVars, onlineStorePublicationId, publicationId, successCount,
                   failureCount, batchInputs, inflight, trace, served>>


\* ---------------------------------- lines 275-337 and 476-491: sequential branch
\* a response of the single-product create mutation; a response without
\* data.productCreate makes line 311 throw, which the catch turns into a failure
SeqResponses ==
    {[kind |-> "throw"]}
    \cup {[kind |-> "errors", errors |-> e, ext |-> NoExtensions] : e \in ErrorLists}
    \cup {[kind |-> "data", slots |-> <<o>>] : o \in {"ok", "userErrors"}}

\* the console line createProduct writes when it returns false
createProductLog(index, resp) ==
    CASE resp.kind = "throw" -> [t |-> "createFailed", index |-> index]
      [] resp.kind = "errors" -> [t |-> "graphQLErrors", index |-> index]
      [] resp.kind = "data" -> [t |-> "userErrors", index |-> index]

\* a pacing delay after every product, the last one included
NeedsDelayAlways == TRUE

\* lines 488-490: the pacing delay is skipped after the last product
NeedsDelay == i < total.val

\* the rest of a loop iteration once createProduct has returned
SeqIterationEnd ==
    IF NeedsDelay
      THEN /\ pc' = "s_delay"
           /\ i' = i
      ELSE /\ pc' = "s_top"
           /\ i' = i + 1

SeqDelayTrace == IF NeedsDelay THEN <<DelayEv(DELAY_MS)>> ELSE <<>>

\* lines 476-477, 277-302 with the cache filled: the create request
\* lines 277, 86-98 with the cache empty: the lookup request
SeqTop ==
    /\ pc = "s_top"
    /\ IF i <= total.val
         THEN /\ (i <= MaxIndex \/ total.val <= SeqMaxIndex)
              /\ IF LookupCached
                   THEN /\ batchInputs' = <<generateProductData(i, includeTestTag,
                                                onlineStorePublicationId)>>
                        /\ inflight' = inflight \cup {CreateEv(i, 1)}
                        /\ trace' = Append(trace, CreateEv(i, 1))
                        /\ pc' = "s_create"
                   ELSE /\ inflight' = inflight \cup {LookupEv}
                        /\ trace' = Append(trace, LookupEv)
                        /\ pc' = "s_lookup"
                        /\ UNCHANGED batchInputs
         ELSE /\ pc' = "done"
              /\ UNCHANGED <<batchInputs, inflight, trace>>
    /\ UNCHANGED <<cliVars, onlineStorePublicationId, publicationId, successCount,
                   failureCount, i, imageJobs, imageResults, log, served, imgServed>>

\* lines 100-114 then 279-302
SeqLookupResponse ==
    /\ pc = "s_lookup"
    /\ \E outcome \in LookupOutcomes :
         /\ onlineStorePublicationId' = LookupStore(outcome)
         /\ batchInputs' = <<generateProductData(i, includeTestTag,
                                                 LookupReturn(outcome))>>
    /\ inflight' = (inflight \ {LookupEv}) \cup {CreateEv(i, 1)}
    /\ trace' = Append(trace, CreateEv(i, 1))
    /\ pc' = "s_create"
    /\ UNCHANGED <<cliVars, publicationId, successCount, failureCount, i, imageJobs,
                   imageResults, log, served, imgServed>>

\* lines 304-322, 330-336 and, when createProduct returns false, 479-490
SeqCreateResponse ==
    /\ pc = "s_create"
    /\ \E resp \in SeqResponses :
         /\ served' = Append(served, Served(i, 1, resp))
         /\ IF resp.kind = "data" /\ resp.slots[1] = "ok"
              THEN /\ inflight' = (inflight \ {CreateEv(i, 1)}) \cup {ImageEv(i)}
                   /\ trace' = Append(trace, ImageEv(i))
                   /\ pc' = "s_image"
                   /\ UNCHANGED <<failureCount, i, log>>
              ELSE /\ inflight' = inflight \ {CreateEv(i, 1)}
                   /\ log' = Append(log, createProductLog(i, resp))
                   /\ failureCount' = failureCount + 1
                   /\ trace' = trace \o SeqDelayTrace
                   /\ SeqIterationEnd
    /\ batchInputs' = <<>>
    /\ UNCHANGED <<cliVars, onlineStorePublicationId, publicationId, successCount,
                   imageJobs, imageResults, imgServed>>

\* lines 322-329: whatever addImageToProduct resolves to is an object, so the
\* test of line 324 passes and the product counts as created; then 479-490
SeqImageResponse ==
    /\ pc = "s_image"
    /\ \E out \in ImageOutcomes :
         LET imageAdded == addImageToProduct(out)
         IN log' = Append(log, [t |-> "created", index |-> i,
                                withImage |-> imageAdded \in ImageReturns])
    /\ inflight' = inflight \ {ImageEv(i)}
    /\ successCount' = successCount + 1
    /\ trace' = trace \o SeqDelayTrace
    /\ SeqIterationEnd
    /\ UNCHANGED <<cliVars, onlineStorePublicationId, publicationId, failureCount,
                   roundVars, served, imgServed>>

\* line 489: the timer fires
SeqDelayDone ==
    /\ pc = "s_delay"
    /\ pc' = "s_top"
    /\ i' = i + 1
    /\ UNCHANGED <<cliVars, onlineStorePublicationId, publicationId, successCount,
                   failureCount, roundVars, inflight, trace, log, served, imgServed>>

Next ==
    \/ Startup
    \/ MainStart
    \/ BatchLookupResponse
    \/ BatchTop
    \/ BatchCreateResponse
    \/ \E k \in 1..MaxIndex : ImageSettle(k)
    \/ ImagesCollected
    \/ SeqTop
    \/ SeqLookupResponse
    \/ SeqCreateResponse
    \/ SeqImageResponse
    \/ SeqDelayDone

Spec == Init /\ [][Next]_vars

\* generateProductData alone, on every index, flag and publication id
TagsInit ==
    /\ argv = <<>>
    /\ pc = "draft"
    /\ exitCode = -1
    /\ includeTestTag \in BOOLEAN
    /\ useBatching = FALSE
    /\ batchSize = Num(DEFAULT_BATCH_SIZE)
    /\ total = Num(DEFAULT_TOTAL)
    /\ onlineStorePublicationId = Null
    /\ publicationId \in {Null, PUBLICATION_GID}
    /\ successCount = 0
    /\ failureCount = 0
    /\ i \in 1..SeqMaxIndex
    /\ batchInputs = <<>>
    /\ imageJobs = <<>>
    /\ imageResults = <<>>
    /\ inflight = {}
    /\ trace = <<>>
    /\ log = <<>>
    /\ served = <<>>
    /\ imgServed = <<>>

TagsNext == BuildDraft

SpecTags == TagsInit /\ [][TagsNext]_vars


\* ===================================================== properties
Running == pc \notin {"start", "exited"}
Batched == Running /\ useBatching
Sequential == Running /\ ~useBatching
T == total.val
W == batchSize.val

CeilDiv(a, b) == (a + b - 1) \div b

OpsOf(kind) == SelectSeq(trace, LAMBDA e : e.op = kind)
CreateCalls == OpsOf("create")

RECURSIVE SumN(_)
SumN(cs) == IF cs = <<>> THEN 0 ELSE Head(cs).n + SumN(Tail(cs))

Prefix(sq, k) == SubSeq(sq, 1, k)

\* the product indices a create call carries
Covered(c) == c.index .. (c.index + c.n - 1)

\* C1: in batched mode round k builds min(W, T - produced) drafts starting at
\* produced + 1, only the last round is narrower than W, and a finished run has
\* made ceil(T/W) create calls whose draft counts sum to T and whose index
\* ranges cover 1..T once each, in increasing order
C1_RoundsPartitionTotal ==
    Batched =>
      LET cs == CreateCalls
      IN /\ \A k \in 1..Len(cs) :
              LET produced == SumN(Prefix(cs, k - 1))
              IN /\ cs[k].index = produced + 1
                 /\ cs[k].n = Min(W, T - produced)
                 /\ cs[k].n >= 1
                 /\ cs[k].n < W => k = CeilDiv(T, W)
         /\ pc = "b_create" => Len(batchInputs) = Last(cs).n
         /\ pc = "done" =>
              /\ Len(cs) = CeilDiv(T, W)
              /\ SumN(cs) = T
              /\ \A idx \in 1..T :
                   Cardinality({k \in 1..Len(cs) : idx \in Covered(cs[k])}) = 1

C1_Witness ==
    /\ Batched /\ pc = "done"
    /\ Len(CreateCalls) >= 2
    /\ Last(CreateCalls).n < W

\* a create response has just been reconciled
Reconciled == Len(served') = Len(served) + 1

\* C2: in batched mode a create response with a top-level errors list counts
\* every slot of the round as failed and none as succeeded
C2_TopLevelErrorsFailRound ==
    [][(pc = "b_create" /\ Reconciled /\ Last(served').kind = "errors") =>
         /\ failureCount' = failureCount + Len(batchInputs)
         /\ successCount' = successCount]_vars

ImagesInFlight == {r \in inflight : r.op = "image"}

\* a batched run that is followed to its end
FollowedBatched == Batched /\ T <= MaxIndex

\* the steps C3 is about
C3_ThrownRoundStep ==
    /\ (pc = "b_create" /\ Reconciled /\ Last(served').kind = "throw") =>
         /\ failureCount' = failureCount + Len(batchInputs)
         /\ successCount' = successCount
         /\ trace' = trace
         /\ inflight' = {}
         /\ pc' = "b_top"
         /\ i' = i + W
    /\ (pc = "b_top" /\ i <= T) =>
         /\ pc' = "b_create"
         /\ Last(trace') = CreateEv(i, Min(W, T - i + 1))
    /\ (pc = "b_top" /\ i > T) => (pc' = "done" /\ exitCode' = -1)

\* C3: in batched mode a round whose create request throws adds one failure per
\* slot and no success, starts no image call, and hands control back to the loop
\* head at the next round's index; the loop head then issues the next round's
\* create call or, past the last round, ends the run without exiting; and until
\* the summary is reached the run always has a next step and never exits
C3_ThrownRoundFailsAndContinues ==
    /\ [](FollowedBatched => (exitCode = -1 /\ (pc = "done" \/ ENABLED Next)))
    /\ [][C3_ThrownRoundStep]_vars

C3_Witness ==
    /\ Batched /\ pc = "done"
    /\ Len(served) >= 2
    /\ served[1].kind = "throw"
    /\ failureCount >= served[1].n
    /\ successCount >= 1

\* C4: the publication lookup is requested at most once per run
C4_LookupAtMostOnce == Len(OpsOf("lookup")) <= 1

\* C5: in batched mode a create call is in flight only alone and only after
\* every earlier round's response was reconciled; image calls in flight all
\* belong to the round being processed; every image call in the trace that
\* follows a create call belongs to that round or a later one; and the lookup is
\* answered before any create or image call is issued
C5_RoundsStrictlySequential ==
    Batched =>
      /\ pc = "b_create" =>
           /\ inflight = {CreateEv(i, Len(batchInputs))}
           /\ Len(served) = Len(CreateCalls) - 1
      /\ \A r \in ImagesInFlight :
           /\ pc = "b_images"
           /\ r.index \in Covered(Last(CreateCalls))
           /\ Len(served) = Len(CreateCalls)
      /\ \A p \in 1..Len(trace) : \A q \in (p + 1)..Len(trace) :
           (trace[p].op = "create" /\ trace[q].op = "image")
              => trace[q].index >= trace[p].index
      /\ LookupEv \in inflight =>
           (inflight = {LookupEv} /\ OpsOf("image") = <<>> /\ CreateCalls = <<>>)
      /\ pc \in {"b_top", "done"} => inflight = {}

C5_Witness ==
    /\ Batched /\ pc = "b_create"
    /\ Len(served) >= 1
    /\ Len(OpsOf("image")) >= 2

C5_WitnessFanOut ==
    /\ Batched /\ Cardinality(ImagesInFlight) >= 2


\* ------------------------------------------------------------ C6
IsOk(r) == r.kind = "data" /\ r.slots[1] = "ok"

NumOk(rs) == Len(SelectSeq(rs, IsOk))

NumKind(rs, kind) == Len(SelectSeq(rs, LAMBDA r : r.kind = kind))

\* per product: the create call, the image call when the create succeeded
RECURSIVE CanonCalls(_)
CanonCalls(rs) ==
    IF rs = <<>> THEN <<>>
    ELSE <<CreateEv(Head(rs).start, 1)>>
         \o (IF IsOk(Head(rs)) THEN <<ImageEv(Head(rs).start)>> ELSE <<>>)
         \o CanonCalls(Tail(rs))

\* the same with the pacing delay between consecutive products
RECURSIVE CanonActions(_)
CanonActions(rs) ==
    IF rs = <<>> THEN <<>>
    ELSE <<CreateEv(Head(rs).start, 1)>>
         \o (IF IsOk(Head(rs)) THEN <<ImageEv(Head(rs).start)>> ELSE <<>>)
         \o (IF Head(rs).start < T THEN <<DelayEv(DELAY_MS)>> ELSE <<>>)
         \o CanonActions(Tail(rs))

\* create calls, image calls and delays, in order
Observed == SelectSeq(trace, LAMBDA e : e.op # "lookup")
ObservedCalls == SelectSeq(trace, LAMBDA e : e.op \in {"create", "image"})

WidthOneRun == Running /\ (~useBatching \/ W = 1)
BetweenProducts == pc \in {"b_top", "s_top", "s_delay", "done"}

\* C6 as stated: with batch width 1 the actions per product (create call, image
\* call on success, pacing delay) and the final tally are the same function of
\* the server's responses with and without --batch
C6_WidthOneSameAsSequential ==
    WidthOneRun =>
      /\ BetweenProducts => Observed = CanonActions(served)
      /\ pc = "done" =>
           /\ successCount = NumOk(served)
           /\ failureCount = T - NumOk(served)

\* C6 amended: with batch width 1 the create and image calls per product and
\* successCount are the same function of the responses in both modes; the
\* sequential path alone adds the pacing delay between consecutive products, and
\* it alone counts a create response with top-level errors as a failure
C6_WidthOneSameCalls ==
    WidthOneRun =>
      /\ BetweenProducts =>
           /\ ObservedCalls = CanonCalls(served)
           /\ Sequential => Observed = CanonActions(served)
           /\ Batched => OpsOf("delay") = <<>>
      /\ pc = "done" =>
           /\ Len(served) = T
           /\ successCount = NumOk(served)
           /\ Sequential => failureCount = T - NumOk(served)
           /\ Batched =>
                failureCount = T - NumOk(served) - NumKind(served, "errors")

C6_Witness ==
    /\ Batched /\ W = 1 /\ pc = "done" /\ T >= 2
    /\ IsOk(served[1])
    /\ served[2].kind = "errors"
    /\ successCount = 1 /\ failureCount = 0

\* ------------------------------------------------------------ C7
NumOkSlots(r) == Cardinality({k \in 1..Len(r.slots) : r.slots[k] = "ok"})

OkIndices(r) ==
    LET ks == SelectSeq([k \in 1..Len(r.slots) |-> k], LAMBDA k : r.slots[k] = "ok")
    IN [m \in 1..Len(ks) |-> r.start + (ks[m] - 1)]

RECURSIVE ServedCost(_)
ServedCost(outs) ==
    IF outs = <<>> THEN 0
    ELSE (IF Head(outs).kind = "throw" THEN 0 ELSE Head(outs).cost)
         + ServedCost(Tail(outs))

\* C7: in batched mode a reconciled round with n created products adds n to
\* successCount and starts exactly n image calls, one per created product; no
\* step of the image stage changes the tally; and the report of the image stage
\* counts the k calls the server answered with success out of n, with the costs
\* of all answered calls summed
C7_TallyIgnoresImages ==
    [][Batched =>
        /\ (pc = "b_create" /\ Reconciled) =>
             LET r == Last(served')
             IN /\ successCount' = successCount + NumOkSlots(r)
                /\ trace' = trace \o [m \in 1..NumOkSlots(r) |-> ImageEv(OkIndices(r)[m])]
        /\ pc = "b_images" =>
             /\ successCount' = successCount
             /\ failureCount' = failureCount
        /\ (pc = "b_images" /\ pc' # "b_images") =>
             /\ Len(imgServed) = NumOkSlots(Last(served))
             /\ Last(log') =
                  [t |-> "imageBatchCost", index |-> i,
                   cost |-> ServedCost(imgServed),
                   ok |-> Cardinality({k \in 1..Len(imgServed) : imgServed[k].kind = "ok"}),
                   n |-> NumOkSlots(Last(served))]]_vars

C7_Witness ==
    /\ Batched /\ pc = "done"
    /\ T = 3 /\ W = DEFAULT_BATCH_SIZE
    /\ successCount = 3 /\ failureCount = 0
    /\ \E k \in 1..Len(log) :
         log[k].t = "imageBatchCost" /\ log[k].ok = 2 /\ log[k].n = 3

\* ------------------------------------------------------------ C8
LoggedAs(kinds) == {log[k].index : k \in {m \in 1..Len(log) : log[m].t \in kinds}}

FailureKinds == {"userErrors", "graphQLErrors", "createFailed", "batchFailed",
                 "batchGraphQLErrors"}

AllData == \A k \in 1..Len(served) : served[k].kind = "data"

\* the product indices whose slot was answered with the given outcome
SlotIndices(outcomes) ==
    UNION {{served[k].start + (j - 1) :
              j \in {m \in 1..Len(served[k].slots) : served[k].slots[m] \in outcomes}} :
           k \in 1..Len(served)}

\* C8: when every create response carries data, the products answered with user
\* errors (the set F) are exactly the ones logged as failed and counted in
\* failureCount, every other product counts as a success, and the run goes on:
\* a finished sequential run has T - |F| successes and |F| failures; in batched
\* mode a failed slot is logged with index startIndex + position and the other
\* slots of its round get their image call
C8_UserErrorFailsOnlyThatItem ==
    (Running /\ AllData /\ BetweenProducts) =>
      LET F == SlotIndices({"userErrors", "missing"})
          G == SlotIndices({"ok"})
      IN /\ LoggedAs(FailureKinds) = F
         /\ failureCount = Cardinality(F)
         /\ successCount = Cardinality(G)
         /\ {e.index : e \in {x \in {trace[k] : k \in 1..Len(trace)} : x.op = "image"}} = G
         /\ (Sequential /\ pc = "done") =>
              /\ Len(served) = T
              /\ successCount = T - Cardinality(F)
              /\ failureCount = Cardinality(F)

C8_Witness ==
    /\ Sequential /\ pc = "done" /\ T = 5
    /\ Len(served) = 5 /\ AllData
    /\ \A k \in 1..5 : served[k].slots[1] = (IF k = 3 THEN "userErrors" ELSE "ok")
    /\ successCount = 4 /\ failureCount = 1
    /\ LoggedAs(FailureKinds) = {3}

C8_WitnessBatched ==
    /\ Batched /\ pc = "done" /\ Len(served) = 1
    /\ served[1].slots = <<"ok", "userErrors", "ok">>
    /\ successCount = 2 /\ failureCount = 1
    /\ LoggedAs(FailureKinds) = {2}

\* ------------------------------------------------------------ C9
IsPositiveIntegerText(s) ==
    /\ s # <<>>
    /\ \A k \in 1..Len(s) : IsDigit(s[k])
    /\ DigitsValue(s) > 0

Positionals(args) == SelectSeq(args, LAMBDA a : ~StartsWith(a, DASHDASH))
SizeFlags(args) == SelectSeq(args, LAMBDA a : StartsWith(a, BATCH_SIZE_EQ))

CountArgumentBad(args) ==
    Positionals(args) # <<>> /\ ~IsPositiveIntegerText(Head(Positionals(args)))

SizeFlagBad(args) ==
    /\ SizeFlags(args) # <<>>
    /\ LET txt == SubSeq(Head(SizeFlags(args)), Len(BATCH_SIZE_EQ) + 1,
                         Len(Head(SizeFlags(args))))
       IN ~(IsPositiveIntegerText(txt) /\ DigitsValue(txt) <= MAX_BATCH_SIZE)

\* C9: a count argument that is not a positive integer, or a batch-size flag
\* that is not an integer in 1..100, makes the process exit non-zero before any
\* network call; only an absent count falls back to the default
C9_InvalidArgumentsExit ==
    (pc # "start" /\ ~WantsHelp(argv)) =>
      /\ (CountArgumentBad(argv) \/ SizeFlagBad(argv)) =>
           (pc = "exited" /\ exitCode >= 1 /\ trace = <<>>)
      /\ (Running /\ T = DEFAULT_TOTAL) =>
           (Positionals(argv) = <<>> \/ Head(Positionals(argv)) = DecStr(DEFAULT_TOTAL))

\* ------------------------------------------------------------ C10
HasThrottled(r) == \E k \in 1..Len(r.errors) : r.errors[k] = "THROTTLED"

BudgetFigures(ext) ==
    IF ext.hasCost
      THEN [requestedCost |-> ext.requestedQueryCost,
            maxAvailable |-> ext.maximumAvailable,
            currentlyAvailable |-> ext.currentlyAvailable]
      ELSE [requestedCost |-> 0, maxAvailable |-> 0, currentlyAvailable |-> 0]

Range(sq) == {sq[k] : k \in 1..Len(sq)}

\* C11: the tag list of every draft holds the marker tag exactly when
\* includeTestTag is true, and besides it exactly two tags, both from the
\* vocabulary and different from each other, so no tag occurs twice
C11_TagsMarkerAndTwoDistinct ==
    \A k \in 1..Len(batchInputs) :
      LET tags == batchInputs[k].tags
          others == SelectSeq(tags, LAMBDA t : t # MARKER_TAG)
      IN /\ (MARKER_TAG \in Range(tags)) <=> includeTestTag
         /\ Len(others) = 2
         /\ Range(others) \subseteq Range(TAG_VOCABULARY)
         /\ others[1] # others[2]
         /\ Cardinality(Range(tags)) = Len(tags)
         /\ Len(tags) = (IF includeTestTag THEN 3 ELSE 2)

C11_Witness ==
    /\ pc = "draft" /\ ~includeTestTag
    /\ Len(batchInputs) = 1
    /\ batchInputs[1].tags = <<"Sale", "New">>


\* ------------------------------------------------------------ C12
\* the products whose round or iteration has been reconciled: every product of
\* a delivered create response, except that a sequential iteration whose create
\* succeeded is reconciled only once its image call has returned
ReconciledProducts == SumN(served) - (IF pc = "s_image" THEN 1 ELSE 0)

\* C12: at every point of a run successCount + failureCount is the number of
\* products whose round or iteration has been reconciled, and when the summary
\* is printed it is T, in both modes and for every pattern of responses
C12_TallyConservation ==
    Running =>
      /\ successCount + failureCount = ReconciledProducts
      /\ pc = "done" => successCount + failureCount = T

====
